---- MODULE Spec2Model ----
(***************************************************************************)
(* Model of neo/io/pynnio.py: the legacy PyNN readers and writers          *)
(* (BasePyNNIO, PyNNNumpyIO, PyNNTextIO).                                  *)
(*                                                                         *)
(* One IO object is bound to one file.  A behaviour starts either with a   *)
(* segment built by the caller and no file yet, or with a file produced    *)
(* by the legacy tool and an empty segment, and then calls the public      *)
(* methods in any order.                                                   *)
(*                                                                         *)
(* Magnitudes are integers.  A quantity in a coarse unit (s, V) has        *)
(* magnitudes 1, 2, ...; one in a fine unit (ms, mV, uS) has magnitudes    *)
(* 1000, 2000, ..., so that every rescaling the code performs is exact.    *)
(***************************************************************************)
EXTENDS Integers, Sequences, FiniteSets, TLC

VARIABLES driver, seg, file, res

vars == <<driver, seg, file, res>>

(***************************************************************************)
(* Bounds of the model.                                                    *)
(***************************************************************************)
MaxChannels == 2   \* channels of an analog signal
MaxSamples == 2    \* time steps of an analog signal
MaxTrains == 2     \* spike trains of a segment
MaxSpikes == 2     \* spikes of one spike train
MaxRows == 3       \* rows of a file produced by the legacy tool
MaxNum == 12       \* largest integer whose decimal text the parser is tried on

(***************************************************************************)
(* Python values held in annotations and metadata: an int or a str.        *)
(***************************************************************************)
MkInt(n) == [t |-> "int", n |-> n, s |-> ""]
MkStr(s) == [t |-> "str", n |-> 0, s |-> s]

\* A str holding a lone surrogate: str.encode('utf8') raises on it.
Surrogate == "\\udcff"

\* str(value), as "%s" and numpy's string dtype format a metadata value.
Str(v) == IF v.t = "int" THEN ToString(v.n) ELSE v.s

\* The decimal texts of the integers the parser is tried on.
NumText == [n \in 0..MaxNum |-> ToString(n)]

\* eval(value) with the fall-back to the text itself: the decimal text of
\* an integer evaluates to that integer, a bare word raises NameError and
\* is kept as a str.
Eval(text) ==
  IF \E n \in 0..MaxNum : NumText[n] = text
  THEN MkInt(CHOOSE n \in 0..MaxNum : NumText[n] = text)
  ELSE MkStr(text)

\* Whether ("# %s = %s\n" % item).encode('utf8') succeeds.
Encodes(item) == item[1] # Surrogate /\ item[2] # Surrogate

(***************************************************************************)
(* Units.                                                                  *)
(***************************************************************************)
UNITS_MAP == [spikes |-> "ms", v |-> "mV", gsyn |-> "uS"]

Dim == [ms |-> "time", s |-> "time", mV |-> "voltage", V |-> "voltage",
        uS |-> "conductance"]

\* Size of one unit, in thousandths of the fine unit of its dimension.
Scale == [ms |-> 1000, s |-> 1000000, mV |-> 1000, V |-> 1000000, uS |-> 1000]

\* the magnitude kept as it is under the new unit
RescaleNone(x, from, to) == x

\* signal.rescale(units) on one magnitude
Rescale(x, from, to) == (x * Scale[from]) \div Scale[to]

\* rescale raises ValueError between units of different dimensions
CanRescale(from, to) == Dim[from] = Dim[to]

\* Magnitude number i of a quantity in unit u.
Mag(i, u) == i * (1000000 \div Scale[u])

(***************************************************************************)
(* Metadata: a dict from keys to values, here a function on a set of keys. *)
(***************************************************************************)
\* The keys in the order sorted() gives them.
Keys == <<"dt", "first_id", "first_index", "label", "last_id", "last_index",
          "n", "size", "units", "variable">>

Has(md, k) == k \in DOMAIN md

Put(md, k, v) == [x \in (DOMAIN md) \cup {k} |-> IF x = k THEN v ELSE md[x]]

Get(md, k, default) == IF Has(md, k) THEN md[k] ELSE default

\* sorted(metadata.items())
SortedItems(md) ==
  LET ks == SelectSeq(Keys, LAMBDA k : k \in DOMAIN md)
  IN  [i \in 1..Len(ks) |-> <<ks[i], md[ks[i]]>>]

NoMeta == [x \in {} |-> MkInt(0)]

(***************************************************************************)
(* The objects of neo.core the module handles.                             *)
(*   AnalogSignal: samples[t][c] (time x channel), nchan = shape[1].       *)
(*   SpikeTrain:   times, in file order.                                   *)
(***************************************************************************)
AnalogSignal(samples, nchan, units, period, ann) ==
  [samples |-> samples, nchan |-> nchan, units |-> units,
   sampling_period |-> period, annotations |-> ann]

SpikeTrain(times, units, t_stop, period, ann) ==
  [times |-> times, units |-> units, t_stop |-> t_stop,
   sampling_period |-> period, annotations |-> ann]

Segment(ann, analogsignals, spiketrains) ==
  [annotations |-> ann, analogsignals |-> analogsignals,
   spiketrains |-> spiketrains]

\* signal.T: the channels of a (time x channel) signal, each a sequence
Transpose(samples, nchan) ==
  [c \in 1..nchan |-> [t \in 1..Len(samples) |-> samples[t][c]]]

RECURSIVE SumSizes(_)
SumSizes(chs) ==
  IF chs = <<>> THEN 0 ELSE Len(Head(chs).vals) + SumSizes(Tail(chs))

RECURSIVE MaxOf(_)
MaxOf(xs) ==
  IF Len(xs) = 1 THEN xs[1]
  ELSE LET m == MaxOf(Tail(xs)) IN IF xs[1] > m THEN xs[1] ELSE m

(***************************************************************************)
(* Files.  meta: the metadata entries as (key, text) pairs in file order;  *)
(* rows: the rows (value, channel index) of the data table.  by is a       *)
(* history field: who produced the contents.                               *)
(***************************************************************************)
NoFile == [exists |-> FALSE, by |-> "none", meta |-> <<>>, rows |-> <<>>]

(***************************************************************************)
(* write_segment                                                           *)
(***************************************************************************)
\* source, as the loop of lines 155-159 iterates it: the channels of the
\* first analog signal if there is one, else the spike trains.
Source(segment) ==
  IF Len(segment.analogsignals) > 0
  THEN LET s0 == segment.analogsignals[1]
           T == Transpose(s0.samples, s0.nchan)
       IN  [c \in 1..s0.nchan |-> [vals |-> T[c], units |-> s0.units]]
  ELSE [i \in 1..Len(segment.spiketrains) |->
          [vals |-> segment.spiketrains[i].times,
           units |-> segment.spiketrains[i].units]]

\* s0 = source[0], before source is replaced by s0.T
FirstObject(segment) ==
  IF Len(segment.analogsignals) > 0
  THEN segment.analogsignals[1] ELSE segment.spiketrains[1]

\* the units of the first channel, whatever the variable
WriteUnitsOwn(segment) == Source(segment)[1].units

\* lines 144-148: the units everything is rescaled to
WriteUnits(segment) ==
  LET ann == segment.annotations
      own == Source(segment)[1].units
  IN  IF Has(ann, "variable")
      THEN IF ann["variable"].t = "str" /\ ann["variable"].s \in DOMAIN UNITS_MAP
           THEN UNITS_MAP[ann["variable"].s] ELSE own
      ELSE own

\* lines 121-152: the metadata handed to the format driver
WriteMetadata(segment) ==
  LET src == Source(segment)
      size == Len(src)
      m0 == segment.annotations
      m1 == Put(m0, "size", MkInt(size))
      m2 == Put(m1, "first_index", MkInt(0))
      m3 == Put(m2, "last_index", MkInt(size - 1))
      m4 == IF Has(m3, "label") THEN m3 ELSE Put(m3, "label", MkStr("unknown"))
      m5 == IF Has(m4, "dt") THEN m4
            ELSE Put(m4, "dt", MkInt(FirstObject(segment).sampling_period))
      m6 == Put(m5, "n", MkInt(SumSizes(src)))
      m7 == IF Has(segment.annotations, "variable") THEN m6
            ELSE Put(m6, "variable", MkStr("unknown"))
  IN  Put(m7, "units", MkStr(WriteUnits(segment)))

\* the channel's position counted from one
ChannelRowsOneBased(ch, units, i) ==
  [j \in 1..Len(ch.vals) |-> <<Rescale(ch.vals[j], ch.units, units), i + 1>>]

\* lines 156-158 for one channel: its rescaled values beside its position
ChannelRows(ch, units, i) ==
  [j \in 1..Len(ch.vals) |-> <<Rescale(ch.vals[j], ch.units, units), i>>]

\* lines 154-159: the channels one after the other
RECURSIVE Pack(_, _, _)
Pack(src, units, i) ==
  IF i > Len(src) THEN <<>>
  ELSE ChannelRows(src[i], units, i - 1) \o Pack(src, units, i + 1)

\* PyNNNumpyIO._write_file_contents: nothing here fails, and savez writes
\* both entries
NumpyWrite(old, data, metadata) ==
  LET items == SortedItems(metadata)
  IN  [status |-> "ok",
       file |-> [exists |-> TRUE, by |-> "write_segment",
                 meta |-> [i \in 1..Len(items) |-> <<items[i][1], Str(items[i][2])>>],
                 rows |-> data]]

\* PyNNTextIO._write_file_contents: open(filename, 'wb') empties the file,
\* then the lines are formatted, encoded and written one by one, then the
\* table.  An entry that does not encode raises after the lines before it
\* were written; the with block closes the file on the way out.
TextWrite(old, data, metadata) ==
  LET items == SortedItems(metadata)
      lines == [i \in 1..Len(items) |-> <<items[i][1], Str(items[i][2])>>]
      bad == {i \in 1..Len(lines) : ~Encodes(lines[i])}
  IN  IF bad = {}
      THEN [status |-> "ok",
            file |-> [exists |-> TRUE, by |-> "write_segment",
                      meta |-> lines, rows |-> data]]
      ELSE LET first == CHOOSE i \in bad : \A j \in bad : i <= j
           IN  [status |-> "UnicodeEncodeError",
                file |-> [exists |-> TRUE, by |-> "failed write_segment",
                          meta |-> SubSeq(lines, 1, first - 1), rows |-> <<>>]]

WriteFileContents(drv, old, data, metadata) ==
  IF drv = "numpy" THEN NumpyWrite(old, data, metadata)
  ELSE TextWrite(old, data, metadata)

\* the output opened for writing before the segment is looked at
EmptySourceAfterOpen(old) ==
  [status |-> "AssertionError",
   file |-> [exists |-> TRUE, by |-> "failed write_segment", meta |-> <<>>, rows |-> <<>>],
   driver_called |-> FALSE, data |-> <<>>, metadata |-> NoMeta]

\* the assertion of line 120 failing: nothing else has happened yet
EmptySource(old) ==
  [status |-> "AssertionError", file |-> old, driver_called |-> FALSE,
   data |-> <<>>, metadata |-> NoMeta]

\* write_segment(segment) on the file old: the outcome, the file afterwards,
\* and what was handed to the driver
write_segment(drv, old, segment) ==
  IF Len(segment.analogsignals) = 0 /\ Len(segment.spiketrains) = 0
  THEN EmptySource(old)
  ELSE LET src == Source(segment)
           units == WriteUnits(segment)
           metadata == WriteMetadata(segment)
       IN  IF \E i \in 1..Len(src) : ~CanRescale(src[i].units, units)
           THEN [status |-> "ValueError", file |-> old, driver_called |-> FALSE,
                 data |-> <<>>, metadata |-> metadata]
           ELSE LET data == Pack(src, units, 1)
                    w == WriteFileContents(drv, old, data, metadata)
                IN  [status |-> w.status, file |-> w.file, driver_called |-> TRUE,
                     data |-> data, metadata |-> metadata]

(***************************************************************************)
(* Reading a file back                                                     *)
(***************************************************************************)
\* The loops of PyNNNumpyIO._read_file_contents and PyNNTextIO._read_metadata:
\* every entry is evaluated, a later entry of a key replaces an earlier one.
ReadMetadata(meta) ==
  LET ks == {meta[i][1] : i \in DOMAIN meta}
      last(k) == CHOOSE i \in DOMAIN meta :
                   meta[i][1] = k /\ \A j \in DOMAIN meta : meta[j][1] = k => j <= i
  IN  [k \in ks |-> Eval(meta[last(k)][2])]

\* contents["data"]: the table as saved, always two-dimensional
NumpyData(rows) == [ndim |-> 2, rows |-> rows]

\* numpy.loadtxt(filename): axes of length one are squeezed, so a table of
\* one row comes back as a vector of two numbers and an empty table as an
\* empty vector
LoadTxt(rows) == [ndim |-> IF Len(rows) >= 2 THEN 2 ELSE 1, rows |-> rows]

ReadFileContents(drv, f) ==
  [data |-> IF drv = "numpy" THEN NumpyData(f.rows) ELSE LoadTxt(f.rows),
   metadata |-> ReadMetadata(f.meta)]

\* data[:, 1] raises IndexError unless data has two dimensions
Indexable(data) == data.ndim = 2

\* the rows of the channel after the one asked for
ExtractArrayOneBased(data, channel_index) ==
  LET hit == SelectSeq(data.rows, LAMBDA r : r[2] = channel_index + 1)
  IN  [j \in 1..Len(hit) |-> hit[j][1]]

\* _extract_array, for a two-dimensional data
ExtractArray(data, channel_index) ==
  LET hit == SelectSeq(data.rows, LAMBDA r : r[2] = channel_index)
  IN  [j \in 1..Len(hit) |-> hit[j][1]]

\* the variable looked up before the explicit units
DetermineUnitsVariableFirst(metadata) ==
  IF Has(metadata, "variable") /\ metadata["variable"].t = "str"
     /\ metadata["variable"].s \in DOMAIN UNITS_MAP
  THEN [status |-> "ok", units |-> UNITS_MAP[metadata["variable"].s]]
  ELSE IF Has(metadata, "units")
       THEN [status |-> "ok", units |-> metadata["units"].s]
       ELSE [status |-> "IOError", units |-> ""]

\* _determine_units
DetermineUnits(metadata) ==
  IF Has(metadata, "units")
  THEN [status |-> "ok", units |-> metadata["units"].s]
  ELSE IF Has(metadata, "variable") /\ metadata["variable"].t = "str"
          /\ metadata["variable"].s \in DOMAIN UNITS_MAP
       THEN [status |-> "ok", units |-> UNITS_MAP[metadata["variable"].s]]
       ELSE [status |-> "IOError", units |-> ""]

Fail(e) == [status |-> e, val |-> <<>>]

\* a comparison with 'spike', which no file carries
IsSpikesMisspelt(metadata) == metadata["variable"] = MkStr("spike")

\* metadata['variable'] == 'spikes'
IsSpikes(metadata) == metadata["variable"] = MkStr("spikes")

Ok(v) == [status |-> "ok", val |-> v]

\* _extract_signals.  val is the signal, or None when status is "none".
ExtractSignals(data, metadata) ==
  IF ~Has(metadata, "first_index") \/ ~Has(metadata, "last_index") THEN Fail("KeyError")
  ELSE
  LET first == metadata["first_index"].n
      last == metadata["last_index"].n
      arr == [i \in 1..(last - first + 1) |-> ExtractArray(data, first + i - 1)]
  IN  IF first <= last /\ ~Indexable(data) THEN Fail("IndexError")
      ELSE IF first > last THEN Fail("ValueError")               \* vstack of nothing
      ELSE IF \E i \in DOMAIN arr : Len(arr[i]) # Len(arr[1])
      THEN Fail("ValueError")                                     \* vstack of unequal rows
      ELSE IF Len(arr) > 0
      THEN LET u == DetermineUnits(metadata)
           IN  IF u.status # "ok" THEN Fail(u.status)
               ELSE IF ~Has(metadata, "dt") \/ ~Has(metadata, "label")
                       \/ ~Has(metadata, "variable")
               THEN Fail("KeyError")
               ELSE Ok(AnalogSignal(
                      [t \in 1..Len(arr[1]) |-> [c \in 1..Len(arr) |-> arr[c][t]]],
                      Len(arr), u.units, metadata["dt"].n,
                      [label |-> metadata["label"], variable |-> metadata["variable"]]))
      ELSE Fail("UnboundLocalError")                              \* signal never assigned

\* _extract_spikes.  status "none" stands for the return value None.  The
\* train is built without a sampling rate, so it has the default one of
\* 1 Hz: a sampling period of 1000 ms.
ExtractSpikes(data, metadata, channel_index) ==
  IF ~Indexable(data) THEN Fail("IndexError")
  ELSE LET spike_times == ExtractArray(data, channel_index)
       IN  IF Len(spike_times) > 0
           THEN IF ~Has(metadata, "label") \/ ~Has(metadata, "dt") THEN Fail("KeyError")
                ELSE Ok(SpikeTrain(spike_times, "ms", MaxOf(spike_times), 1000,
                          [label |-> metadata["label"],
                           channel_index |-> channel_index,
                           dt |-> metadata["dt"]]))
           ELSE [status |-> "none", val |-> <<>>]

\* the loop of lines 105-108 from channel i on, acc the trains found so far
RECURSIVE SpikeLoop(_, _, _, _, _)
SpikeLoop(data, metadata, i, last, acc) ==
  IF i > last THEN Ok(acc)
  ELSE LET r == ExtractSpikes(data, metadata, i)
       IN  IF r.status = "ok" THEN SpikeLoop(data, metadata, i + 1, last, Append(acc, r.val))
           ELSE IF r.status = "none" THEN SpikeLoop(data, metadata, i + 1, last, acc)
           ELSE Fail(r.status)

\* read_segment on the file f
read_segment(drv, f, lazy) ==
  IF lazy THEN Fail("AssertionError")
  ELSE IF ~f.exists THEN Fail("FileNotFoundError")
  ELSE
  LET c == ReadFileContents(drv, f)
      data == c.data
      metadata == c.metadata
      annotations == [k \in {"label", "variable", "first_id", "last_id"} |->
                        Get(metadata, k, MkStr("unknown"))]
  IN  IF ~Has(metadata, "variable") THEN Fail("KeyError")
      ELSE IF IsSpikes(metadata)
      THEN IF ~Has(metadata, "first_index") \/ ~Has(metadata, "last_index")
           THEN Fail("KeyError")
           ELSE LET l == SpikeLoop(data, metadata, metadata["first_index"].n,
                                   metadata["last_index"].n, <<>>)
                IN  IF l.status # "ok" THEN Fail(l.status)
                    ELSE IF ~Has(metadata, "dt") THEN Fail("KeyError")
                    ELSE Ok(Segment(Put(annotations, "dt", metadata["dt"]), <<>>, l.val))
      ELSE LET s == ExtractSignals(data, metadata)
           IN  IF s.status = "ok" THEN Ok(Segment(annotations, <<s.val>>, <<>>))
               ELSE IF s.status = "none" THEN Ok(Segment(annotations, <<>>, <<>>))
               ELSE Fail(s.status)

\* read_analogsignal on the file f
read_analogsignal(drv, f, lazy) ==
  IF lazy THEN Fail("AssertionError")
  ELSE IF ~f.exists THEN Fail("FileNotFoundError")
  ELSE
  LET c == ReadFileContents(drv, f)
  IN  IF ~Has(c.metadata, "variable") THEN Fail("KeyError")
      ELSE IF IsSpikes(c.metadata) THEN Fail("TypeError")
      ELSE LET s == ExtractSignals(c.data, c.metadata)
           IN  IF s.status = "none" THEN Fail("IndexError") ELSE s

\* read_spiketrain on the file f
read_spiketrain(drv, f, lazy, channel_index) ==
  IF lazy THEN Fail("AssertionError")
  ELSE IF ~f.exists THEN Fail("FileNotFoundError")
  ELSE
  LET c == ReadFileContents(drv, f)
  IN  IF ~Has(c.metadata, "variable") THEN Fail("KeyError")
      ELSE IF ~IsSpikes(c.metadata) THEN Fail("TypeError")
      ELSE LET s == ExtractSpikes(c.data, c.metadata, channel_index)
           IN  IF s.status = "none" THEN Fail("IndexError") ELSE s

(***************************************************************************)
(* The segments a caller hands to write_segment, and the files the legacy  *)
(* tool leaves behind.                                                     *)
(***************************************************************************)
Merge(a, b) == [x \in (DOMAIN a) \cup (DOMAIN b) |-> IF x \in DOMAIN a THEN a[x] ELSE b[x]]

Opt(k, S) == {NoMeta} \cup {[x \in {k} |-> v] : v \in S}

Annotations ==
  {Merge(Merge(a, b), c) :
     a \in Opt("label", {MkStr("pop"), MkStr("7"), MkStr(Surrogate)}),
     b \in Opt("variable", {MkStr("v"), MkStr("spikes"), MkStr("foo")}),
     c \in Opt("dt", {MkInt(1)})}

\* A signal of T time steps and k channels whose samples are all different.
Grid(k, T, u) == [t \in 1..T |-> [c \in 1..k |-> Mag((c - 1) * T + t, u)]]

Signals ==
  {AnalogSignal(Grid(k, T, u), k, u, p, NoMeta) :
     k \in 1..MaxChannels, T \in 0..MaxSamples, u \in {"mV", "V", "ms"}, p \in {1, 2}}

\* The signal a segment of two analog signals holds after its first.
OtherSignal == AnalogSignal(Grid(1, 1, "mV"), 1, "mV", 1, NoMeta)

SignalLists ==
  {<<s>> : s \in Signals} \cup {<<s, OtherSignal>> : s \in Signals}

\* L spike times, not in increasing order: 2, 1, 4, 3, ...
Times(L, u) == [i \in 1..L |-> Mag(IF i % 2 = 1 THEN i + 1 ELSE i - 1, u)]

Train(L, u) == SpikeTrain(Times(L, u), u, Mag(MaxSpikes + 1, u), 1, NoMeta)

\* n spike trains: the first in unit u1 and the others in unit u2, train
\* number i holding (L + i - 1) modulo (MaxSpikes + 1) spikes.
TrainLists ==
  {[i \in 1..n |-> Train((L + i - 1) % (MaxSpikes + 1), IF i = 1 THEN u1 ELSE u2)] :
     n \in 1..MaxTrains, L \in 0..MaxSpikes, u1 \in {"ms", "s"}, u2 \in {"ms", "s"}}

EmptySegment == Segment(NoMeta, <<>>, <<>>)

Segments ==
  {Segment(a, <<>>, <<>>) : a \in Annotations}
  \cup {Segment(a, l, <<>>) : a \in Annotations, l \in SignalLists}
  \cup {Segment(a, <<>>, l) : a \in Annotations, l \in TrainLists}

\* Row number i of a legacy file holds the value i (in fine units).
LegacyRows ==
  UNION {{[i \in 1..n |-> <<Mag(i, "ms"), ix[i]>>] : ix \in [1..n -> {0, 1}]} :
           n \in 0..MaxRows}

LegacyMetadata ==
  {Merge(Merge(a, b),
         [dt |-> MkInt(1), label |-> MkStr("pop"),
          first_index |-> MkInt(f), last_index |-> MkInt(l)]) :
     a \in Opt("variable", {MkStr("spikes"), MkStr("v"), MkStr("gsyn"), MkStr("foo")}),
     b \in Opt("units", {MkStr("ms"), MkStr("V")}),
     f \in 0..(MaxChannels - 1), l \in 0..(MaxChannels - 1)}

LegacyFile(md, rows) ==
  LET items == SortedItems(md)
  IN  [exists |-> TRUE, by |-> "PyNN",
       meta |-> [i \in 1..Len(items) |-> <<items[i][1], Str(items[i][2])>>],
       rows |-> rows]

LegacyFiles == {LegacyFile(md, rows) : md \in LegacyMetadata, rows \in LegacyRows}

(***************************************************************************)
(* The state machine                                                       *)
(***************************************************************************)
Result(op, lazy, channel_index, status, val) ==
  [op |-> op, lazy |-> lazy, channel_index |-> channel_index,
   status |-> status, val |-> val]

Init ==
  /\ driver \in {"numpy", "text"}
  /\ \/ seg \in Segments /\ file = NoFile
     \/ seg = EmptySegment /\ file \in LegacyFiles
  /\ res = Result("none", FALSE, 0, "ok", <<>>)

WriteSegment ==
  LET w == write_segment(driver, file, seg)
  IN  /\ file' = w.file
      /\ res' = Result("write_segment", FALSE, 0, w.status,
                       [data |-> w.data, metadata |-> w.metadata,
                        driver_called |-> w.driver_called])
      /\ UNCHANGED <<driver, seg>>

ReadSegment ==
  \E lazy \in BOOLEAN :
    LET r == read_segment(driver, file, lazy)
    IN  /\ res' = Result("read_segment", lazy, 0, r.status, r.val)
        /\ UNCHANGED <<driver, seg, file>>

ReadAnalogSignal ==
  \E lazy \in BOOLEAN :
    LET r == read_analogsignal(driver, file, lazy)
    IN  /\ res' = Result("read_analogsignal", lazy, 0, r.status, r.val)
        /\ UNCHANGED <<driver, seg, file>>

ReadSpikeTrain ==
  \E lazy \in BOOLEAN, channel_index \in 0..MaxChannels :
    \* a lazy call is refused whatever the channel: one such call is enough
    (lazy => channel_index = 0) /\
    LET r == read_spiketrain(driver, file, lazy, channel_index)
    IN  /\ res' = Result("read_spiketrain", lazy, channel_index, r.status, r.val)
        /\ UNCHANGED <<driver, seg, file>>

\* _determine_units called on the metadata of the file
ResolveUnits ==
  /\ file.exists
  /\ LET metadata == ReadFileContents(driver, file).metadata
         u == DetermineUnits(metadata)
     IN  res' = Result("_determine_units", FALSE, 0, u.status,
                       [units |-> u.units, metadata |-> metadata])
  /\ UNCHANGED <<driver, seg, file>>

Next ==
  \/ WriteSegment
  \/ ReadSegment
  \/ ReadAnalogSignal
  \/ ReadSpikeTrain
  \/ ResolveUnits

Spec == Init /\ [][Next]_vars

(***************************************************************************)
(* Vocabulary of the properties                                            *)
(***************************************************************************)
FileHas(f, k) == \E i \in DOMAIN f.meta : f.meta[i][1] = k

\* the text the file holds for key k
FileText(f, k) == f.meta[CHOOSE i \in DOMAIN f.meta : f.meta[i][1] = k][2]

\* the integer the file holds for key k
FileInt(f, k) == CHOOSE n \in 0..MaxNum : NumText[n] = FileText(f, k)

\* the values of the rows of f whose channel index is c, in file order
RowsOf(f, c) ==
  LET hit == SelectSeq(f.rows, LAMBDA r : r[2] = c)
  IN  [j \in 1..Len(hit) |-> hit[j][1]]

\* the magnitude x of a quantity in unit from, expressed in unit to: a
\* second is a thousand milliseconds and a volt a thousand millivolts
Converted(x, from, to) ==
  IF from = to THEN x
  ELSE IF from \in {"s", "V"} /\ to \in {"ms", "mV"} THEN x * 1000
  ELSE x \div 1000

WellKnown == {"spikes", "v", "gsyn"}

CanonicalUnit(variable) ==
  CASE variable = "spikes" -> "ms" [] variable = "v" -> "mV" [] variable = "gsyn" -> "uS"

\* a str that encodes in UTF-8 and is not the text of a Python expression
PlainStr(v) == v.t = "str" /\ v.s # Surrogate /\ \A n \in 0..MaxNum : NumText[n] # v.s

AnnOrUnknown(ann, k) == IF Has(ann, k) THEN ann[k] ELSE MkStr("unknown")

HasWellKnownVariable(s) ==
  Has(s.annotations, "variable") /\ s.annotations["variable"].s \in WellKnown

\* the unit write_segment is expected to write the segment s in
ExpectedUnit(s, own) ==
  IF HasWellKnownVariable(s) THEN CanonicalUnit(s.annotations["variable"].s) ELSE own

\* A well-formed segment of one multi-channel analog signal: the signal has
\* at least one time step, the label and variable annotations, where
\* present, are plain strings, the variable is not "spikes", a dt annotation
\* agrees with the sampling period, and the signal's unit converts to the
\* canonical unit of a well-known variable.
AnalogSegment(s) ==
  /\ Len(s.analogsignals) = 1 /\ Len(s.spiketrains) = 0
  /\ s.analogsignals[1].nchan >= 2 /\ Len(s.analogsignals[1].samples) >= 1
  /\ Has(s.annotations, "label") => PlainStr(s.annotations["label"])
  /\ Has(s.annotations, "variable") =>
       PlainStr(s.annotations["variable"]) /\ s.annotations["variable"].s # "spikes"
  /\ Has(s.annotations, "dt") =>
       s.annotations["dt"] = MkInt(s.analogsignals[1].sampling_period)
  /\ HasWellKnownVariable(s) =>
       Dim[s.analogsignals[1].units] = Dim[CanonicalUnit(s.annotations["variable"].s)]

\* read_segment has just read back the file write_segment wrote from seg
ReadBack == res.op = "read_segment" /\ ~res.lazy /\ file.by = "write_segment"

\* the read segment holds one analog signal with the sampling period and
\* the label and variable annotations of seg
ReadOneSignal ==
  /\ res.status = "ok"
  /\ Len(res.val.analogsignals) = 1 /\ Len(res.val.spiketrains) = 0
  /\ LET r == res.val.analogsignals[1]
         o == seg.analogsignals[1]
     IN  /\ r.nchan = o.nchan /\ Len(r.samples) = Len(o.samples)
         /\ r.sampling_period = o.sampling_period
         /\ \A k \in {"label", "variable"} :
              /\ r.annotations[k] = AnnOrUnknown(seg.annotations, k)
              /\ res.val.annotations[k] = AnnOrUnknown(seg.annotations, k)

C2_SpikeRoundTrip ==
  (/\ ReadBack /\ Len(seg.analogsignals) = 0 /\ Len(seg.spiketrains) >= 1
   /\ Has(seg.annotations, "variable") /\ seg.annotations["variable"] = MkStr("spikes")
   /\ \A i \in 1..Len(seg.spiketrains) : Len(seg.spiketrains[i].times) >= 1) =>
    /\ res.status = "ok"
    /\ Len(res.val.spiketrains) = Len(seg.spiketrains)
    /\ \A i \in 1..Len(seg.spiketrains) :
         LET r == res.val.spiketrains[i]
             o == seg.spiketrains[i]
         IN  /\ r.annotations.channel_index = i - 1
             /\ Len(r.times) = Len(o.times)
             /\ \A j \in 1..Len(o.times) :
                  Converted(r.times[j], r.units, "ms") = Converted(o.times[j], o.units, "ms")

(***************************************************************************)
(* C3: mismatch detection: read_analogsignal on a file whose variable is   *)
(* "spikes" raises TypeError, and read_spiketrain, for any channel_index,  *)
(* on a file whose variable is something else raises TypeError, whatever   *)
(* the data table holds.                                                   *)
(***************************************************************************)
C3_MismatchDetection ==
  (~res.lazy /\ file.exists /\ FileHas(file, "variable")) =>
    /\ (res.op = "read_analogsignal" /\ FileText(file, "variable") = "spikes")
         => res.status = "TypeError"
    /\ (res.op = "read_spiketrain" /\ FileText(file, "variable") # "spikes")
         => res.status = "TypeError"

\* C3 witness: read_spiketrain refused on a file of analog data with rows
\* for the channel asked for
C3_Witness ==
  /\ res.op = "read_spiketrain" /\ ~res.lazy /\ res.status = "TypeError"
  /\ file.exists /\ FileHas(file, "variable") /\ FileText(file, "variable") = "v"
  /\ Len(RowsOf(file, res.channel_index)) > 0

(***************************************************************************)
(* C4: empty-segment rejection: write_segment on a segment with no analog  *)
(* signal and no spike train raises AssertionError, the format driver is   *)
(* not called, and the file is exactly as it was.                          *)
(***************************************************************************)
C4_EmptySegmentRejected ==
  [][(res'.op = "write_segment"
      /\ Len(seg.analogsignals) = 0 /\ Len(seg.spiketrains) = 0)
     => (res'.status = "AssertionError" /\ ~res'.val.driver_called /\ file' = file)]_vars

\* C4 witness: the empty segment refused while a file with rows exists
C4_Witness ==
  /\ res.op = "write_segment" /\ res.status = "AssertionError"
  /\ Len(seg.analogsignals) = 0 /\ Len(seg.spiketrains) = 0
  /\ file.exists /\ file.by = "PyNN" /\ Len(file.rows) > 0

(***************************************************************************)
(* C5: no partial-success write: after every write_segment call either the *)
(* call succeeded and the file holds every metadata entry and the whole    *)
(* data table, or the call failed and the file is exactly as it was.       *)
(***************************************************************************)
C5_NoPartialWrite ==
  [][res'.op = "write_segment" =>
       \/ /\ res'.status = "ok"
          /\ file'.exists
          /\ Len(file'.meta) = Cardinality(DOMAIN res'.val.metadata)
          /\ file'.rows = res'.val.data
       \/ /\ res'.status # "ok"
          /\ file' = file]_vars

(***************************************************************************)
(* C6: read_analogsignal not-found: on a file whose variable is not        *)
(* "spikes" and whose table has no row for any channel index in            *)
(* [first_index, last_index], read_analogsignal raises IndexError.  Stated *)
(* for the files with first_index <= last_index whose units resolve.       *)
(***************************************************************************)
C6_AnalogNotFound ==
  (/\ res.op = "read_analogsignal" /\ ~res.lazy /\ file.by = "PyNN"
   /\ FileHas(file, "variable") /\ FileText(file, "variable") # "spikes"
   /\ FileHas(file, "units") \/ FileText(file, "variable") \in WellKnown
   /\ FileInt(file, "first_index") <= FileInt(file, "last_index")
   /\ \A c \in FileInt(file, "first_index")..FileInt(file, "last_index") :
        Len(RowsOf(file, c)) = 0)
  => res.status = "IndexError"

(***************************************************************************)
(* C7: empty extraction: on a file whose variable is "spikes",             *)
(* read_spiketrain(channel_index = c) raises IndexError when no row has    *)
(* channel index c, and otherwise returns a spike train holding exactly    *)
(* the values of the rows with channel index c.                            *)
(***************************************************************************)
C7_EmptyExtraction ==
  (/\ res.op = "read_spiketrain" /\ ~res.lazy /\ file.exists
   /\ FileHas(file, "variable") /\ FileText(file, "variable") = "spikes")
  => IF Len(RowsOf(file, res.channel_index)) = 0
     THEN res.status = "IndexError"
     ELSE res.status = "ok" /\ res.val.times = RowsOf(file, res.channel_index)

(***************************************************************************)
(* C8: unit resolution precedence: _determine_units returns the explicit   *)
(* units whenever the metadata has a units key, the canonical unit of the  *)
(* variable when units is absent and the variable is spikes, v or gsyn,    *)
(* and raises IOError when units is absent and the variable is absent or   *)
(* not one of the three.                                                   *)
(***************************************************************************)
C8_UnitPrecedence ==
  res.op = "_determine_units" =>
    LET metadata == res.val.metadata
    IN  IF Has(metadata, "units")
        THEN res.status = "ok" /\ MkStr(res.val.units) = metadata["units"]
        ELSE IF Has(metadata, "variable") /\ metadata["variable"].s \in WellKnown
        THEN res.status = "ok"
             /\ res.val.units = CanonicalUnit(metadata["variable"].s)
        ELSE res.status = "IOError"

\* C8 witness: explicit units V beside the variable v, whose unit is mV
C8_Witness ==
  /\ res.op = "_determine_units" /\ res.status = "ok"
  /\ Has(res.val.metadata, "units") /\ res.val.metadata["units"] = MkStr("V")
  /\ Has(res.val.metadata, "variable") /\ res.val.metadata["variable"] = MkStr("v")
  /\ res.val.units = "V"

(***************************************************************************)
(* C9: channel extraction is injective: on the table write_segment packs   *)
(* from k channels, whose row count is the sum of the channel lengths,     *)
(* _extract_array(array, i) returns for every i in 0..k-1 the values       *)
(* written for channel i, in order, and nothing else.                      *)
(***************************************************************************)
C9_ExtractionInjective ==
  (res.op = "write_segment" /\ res.val.driver_called) =>
    LET table == NumpyData(res.val.data)
        units == res.val.metadata["units"].s
    IN  IF Len(seg.analogsignals) > 0
        THEN LET o == seg.analogsignals[1]
             IN  /\ Len(res.val.data) = o.nchan * Len(o.samples)
                 /\ \A c \in 1..o.nchan :
                      ExtractArray(table, c - 1) =
                        [t \in 1..Len(o.samples) |-> Converted(o.samples[t][c], o.units, units)]
        ELSE /\ \A c \in 1..Len(seg.spiketrains) :
                  LET o == seg.spiketrains[c]
                  IN  ExtractArray(table, c - 1) =
                        [j \in 1..Len(o.times) |-> Converted(o.times[j], o.units, units)]
             /\ \A c \in 0..MaxTrains :
                  c >= Len(seg.spiketrains) => ExtractArray(table, c) = <<>>

\* C9 witness: a table packed from two channels of two samples each
C9_Witness ==
  /\ res.op = "write_segment" /\ res.val.driver_called
  /\ Len(seg.analogsignals) > 0
  /\ seg.analogsignals[1].nchan >= 2 /\ Len(seg.analogsignals[1].samples) >= 2
  /\ Len(res.val.data) >= 4

\* the table handed to the driver holds the channels of seg rescaled to units
PackedIn(units) ==
  LET src == IF Len(seg.analogsignals) > 0
             THEN LET o == seg.analogsignals[1]
                  IN  [c \in 1..o.nchan |->
                         [vals |-> [t \in 1..Len(o.samples) |-> o.samples[t][c]],
                          units |-> o.units]]
             ELSE [c \in 1..Len(seg.spiketrains) |->
                     [vals |-> seg.spiketrains[c].times, units |-> seg.spiketrains[c].units]]
  IN  \A c \in 1..Len(src) :
        RowsOf([rows |-> res.val.data], c - 1) =
          [j \in 1..Len(src[c].vals) |-> Converted(src[c].vals[j], src[c].units, units)]

FirstUnit ==
  IF Len(seg.analogsignals) > 0 THEN seg.analogsignals[1].units
  ELSE seg.spiketrains[1].units

(***************************************************************************)
(* C10: write-side unit rule, as claimed: in what write_segment hands to   *)
(* the driver, a well-known variable annotation (spikes, v, gsyn) has      *)
(* every channel rescaled to its canonical unit, which metadata units      *)
(* names; in every other case the unit of the first channel is used and    *)
(* metadata variable is "unknown".                                         *)
(***************************************************************************)
C10_UnknownInEveryOtherCase ==
  (res.op = "write_segment" /\ res.val.driver_called) =>
    IF HasWellKnownVariable(seg)
    THEN /\ res.val.metadata["units"] = MkStr(CanonicalUnit(seg.annotations["variable"].s))
         /\ PackedIn(CanonicalUnit(seg.annotations["variable"].s))
    ELSE /\ res.val.metadata["units"] = MkStr(FirstUnit)
         /\ PackedIn(FirstUnit)
         /\ res.val.metadata["variable"] = MkStr("unknown")

(***************************************************************************)
(* C10, amended: as above, but in the other cases metadata variable is     *)
(* "unknown" only when the segment has no variable annotation; an          *)
(* annotation that is not a well-known kind is written as it is.           *)
(***************************************************************************)
C10_WriteUnitRule ==
  (res.op = "write_segment" /\ res.val.driver_called) =>
    IF HasWellKnownVariable(seg)
    THEN /\ res.val.metadata["units"] = MkStr(CanonicalUnit(seg.annotations["variable"].s))
         /\ PackedIn(CanonicalUnit(seg.annotations["variable"].s))
         /\ res.val.metadata["variable"] = seg.annotations["variable"]
    ELSE /\ res.val.metadata["units"] = MkStr(FirstUnit)
         /\ PackedIn(FirstUnit)
         /\ res.val.metadata["variable"] = AnnOrUnknown(seg.annotations, "variable")

\* C10 witness: a segment annotated with the variable foo, written
C10_Witness ==
  /\ res.op = "write_segment" /\ res.val.driver_called /\ res.status = "ok"
  /\ Has(seg.annotations, "variable") /\ seg.annotations["variable"] = MkStr("foo")
  /\ res.val.metadata["variable"] = MkStr("foo")

====
